---- MODULE Spec2Model ----
(***************************************************************************)
(* Model of src/src/deteccao_lib/detector_pessoas_video.py: the mode       *)
(* controller ModoDeteccao and the loop DetectorPessoasVideo.run.          *)
(*                                                                         *)
(* Spec is a ModoDeteccao driven on its own by any caller; SpecLoop is the  *)
(* thread DetectorPessoasVideo.run with a caller of stop(), SpecLoopLive   *)
(* the same thread under fair scheduling; SpecLeitor adds a thread that    *)
(* reads through pega_frame and pega_quantidade_pessoas; SpecConstrutor is *)
(* the constructor called with any arguments, then configuration and       *)
(* start().                                                                *)
(*                                                                         *)
(* Time.  One tick is 0.1 s.  The code reads time.time() and uses only     *)
(* differences of the values read, so every recorded time is kept as an    *)
(* offset from the present instant: 0 is "now", -3 is "0.3 s ago".  When d *)
(* ticks pass every recorded time moves back by d (Recua).  Offsets        *)
(* saturate at -Janela, and Janela is larger than every threshold that a   *)
(* difference is compared with, so the saturation changes no comparison.   *)
(***************************************************************************)
EXTENDS Integers, Sequences, FiniteSets, TLC

\* ------------------------------------------------------------------ bounds
\* How far beyond the largest threshold of the configuration past times are
\* still told apart, in ticks.
Folga == 2
\* The non-zero thresholds a configuration may use, in ticks: one below and
\* one above LimiteChecagem.
LimiteCurto == 1
LimiteLongo == 4
\* max_tempo_sem_atualizar_modo of a ModoDeteccao built on its own, in ticks.
LimiteChecagem == 2
\* Duration, in ticks, of a slow call to a collaborator (stream.read,
\* detectar, the tracker); a fast call takes no tick.
DurLonga == 11
\* Threshold of a configuration of the loop, in ticks.
LimiteLoop == 15
\* Boxes are told apart by a number in 1..MaxCaixas.
MaxCaixas == 2
\* Iterations are numbered modulo NumIt.
NumIt == 2
\* Largest time, in ticks, between the first and the last time.time() read
\* of one call (of atualiza_modo, or of ModoDeteccao.__init__).
MaxReadGap == 1
\* Largest value of an argument of the constructor.
MaxArg == 2

\* ------------------------------------------------------- program constants
\* ModoDeteccao.__init__(..., max_tempo_sem_atualizar_modo=1): 1 s.
PadraoMaxTempoSemAtualizarModo == 10
\* run: MAX_TEMPO_ENTRE_REGISTROS = 1.0 s
MAX_TEMPO_ENTRE_REGISTROS == 10
\* run: PERIODO_MINIMO = 0.7 s
PERIODO_MINIMO == 7

VARIABLES
    \* configuration, fixed at construction
    max_tempo_sem_deteccao, max_tempo_parado, usar_rastreamento,
    max_tempo_sem_atualizar_modo,
    \* the call of DetectorPessoasVideo(...): its arguments and its outcome
    construcao,
    \* fields of ModoDeteccao
    modo, modo_anterior, tempo_em_que_parou, tempo_ultima_deteccao,
    tempo_ultima_checagem, checagem_atual,
    \* what the last call of atualiza_modo saw and did (history)
    aval,
    \* fields of DetectorPessoasVideo
    stopped, stream_externo, configurado, self_frame, self_modo,
    pessoas_registradas, pessoas_historico,
    \* the thread of run: its position and its locals
    pc, tempo_comeco_iteracao, frame_iter, modo_iter, caixas, pesos,
    \* collaborators built or started by run
    rastreador, controla_periodo_loop, detector_movimento, stream,
    \* number of the iteration under way, and its history
    it, iter,
    \* a thread inside pega_frame
    leitor

cfgVars == <<max_tempo_sem_deteccao, max_tempo_parado, usar_rastreamento,
             max_tempo_sem_atualizar_modo, construcao>>
mdVars == <<cfgVars, modo, modo_anterior, tempo_em_que_parou, tempo_ultima_deteccao,
            tempo_ultima_checagem, checagem_atual>>
loopVars == <<stopped, stream_externo, configurado, self_frame, self_modo,
              pessoas_registradas, pessoas_historico, pc,
              tempo_comeco_iteracao, frame_iter, modo_iter, caixas, pesos,
              rastreador, controla_periodo_loop, detector_movimento, stream,
              it, iter>>
vars == <<mdVars, aval, loopVars, leitor>>

Max(a, b) == IF a >= b THEN a ELSE b
Min(a, b) == IF a <= b THEN a ELSE b

\* Past times are told apart up to Janela ticks ago: beyond every threshold
\* of the configuration.
Janela ==
    Max(max_tempo_sem_deteccao,
        Max(max_tempo_parado, max_tempo_sem_atualizar_modo)) + Folga

\* A recorded time t, seen d ticks later.
Recua(t, d) == Max(t - d, -Janela)

Limites == {0, LimiteCurto, LimiteLongo}
Gaps == 0..MaxReadGap

\* --------------------------------------------------------- ModoDeteccao
\* line 406
ParadoDemais(agora, parou, maxParado) == agora - parou >= maxParado
\* lines 407-408
SemDetectarDemais(agora, deteccao, maxSemDeteccao) ==
    agora - deteccao >= maxSemDeteccao
\* line 409: the last check minus the current one, as written.
MaxTempoChecagemExcedido(ultimaChecagem, checagemAtual) ==
    ultimaChecagem - checagemAtual > max_tempo_sem_atualizar_modo

\* Mutant: motion leads to tracking whether tracking is enabled or not.
ModoAposDetectando_SempreRastreia(teveMovimento, usarRastr, excedido) ==
    IF ~teveMovimento THEN "parado" ELSE "rastreando"

\* lines 417-423
ModoAposDetectando(teveMovimento, usarRastr, excedido) ==
    IF ~teveMovimento THEN "parado"
    ELSE IF ~usarRastr \/ excedido THEN "detectando"
    ELSE "rastreando"

\* Mutant: a stopped run is left on motion only.
ModoAposParado_SoMovimento(teveMovimento, paradoDemais) ==
    IF teveMovimento THEN "detectando" ELSE "parado"

\* lines 424-428
ModoAposParado(teveMovimento, paradoDemais) ==
    IF teveMovimento \/ paradoDemais THEN "detectando" ELSE "parado"

\* Mutant: tracking is not bounded by max_tempo_sem_deteccao.
ModoAposRastreando_SemLimite(atual, teveMovimento, semDetectarDemais, excedido) ==
    IF ~teveMovimento \/ excedido THEN "detectando" ELSE atual

\* lines 429-431: the mode is assigned only when a condition fires.
ModoAposRastreando(atual, teveMovimento, semDetectarDemais, excedido) ==
    IF ~teveMovimento \/ semDetectarDemais \/ excedido THEN "detectando"
    ELSE atual

\* Mutant: the final else branch leaves the mode as it is, unset.
ModoAposIndefinido_Fica == ""

\* lines 433-434
ModoAposIndefinido == "detectando"

\* lines 417-434
ProximoModo(anterior, atual, mov, paradoDemais, semDetectar, excedido, usarRastr) ==
    IF anterior = "detectando" THEN ModoAposDetectando(mov, usarRastr, excedido)
    ELSE IF anterior = "parado" THEN ModoAposParado(mov, paradoDemais)
    ELSE IF anterior = "rastreando"
         THEN ModoAposRastreando(atual, mov, semDetectar, excedido)
    ELSE ModoAposIndefinido

\* Mutant: the entry time is recorded while staying stopped, not on entry.
RegistraParada_Ficando(novo, anterior) == novo = "parado" /\ anterior = "parado"
\* Mutant: the entry time is refreshed at every stopped evaluation.
RegistraParada_Sempre(novo, anterior) == novo = "parado"

\* line 436
RegistraParada(novo, anterior) == novo = "parado" /\ anterior # "parado"
\* Mutant: the detection time is recorded at every evaluation that does not
\* enter 'parado'.
RegistraDeteccao_Sempre(novo, anterior) == ~RegistraParada(novo, anterior)

\* line 438
RegistraDeteccao(novo, anterior) ==
    ~RegistraParada(novo, anterior) /\ novo = "detectando"

\* ModoDeteccao.__init__, lines 378-389.  The three time.time() reads (384,
\* 385, 389) are a, then a + g1, then a + g1 + g2; the state is taken at the
\* last read.
ModoConstruido(g1, g2) ==
    [tempo_em_que_parou |-> Recua(0 - max_tempo_parado, g1 + g2),
     tempo_ultima_deteccao |-> Recua(0 - max_tempo_sem_deteccao, g2),
     modo |-> "", modo_anterior |-> "", tempo_ultima_checagem |-> 0]

\* No DetectorPessoasVideo is built around a ModoDeteccao used on its own.
SemConstrucao ==
    [max_tempo_sem_deteccao |-> 0, max_tempo_parado |-> 0,
     max_largura_frame |-> 0, resultado |-> "nenhuma"]

\* A ModoDeteccao built on its own, with thresholds from small sets.
InitModo ==
    /\ max_tempo_sem_deteccao \in Limites
    /\ max_tempo_parado \in Limites \ {0}
    /\ usar_rastreamento \in BOOLEAN
    /\ max_tempo_sem_atualizar_modo = LimiteChecagem
    /\ construcao = SemConstrucao
    /\ \E g1 \in Gaps, g2 \in Gaps :
          /\ g1 + g2 <= MaxReadGap
          /\ tempo_em_que_parou = ModoConstruido(g1, g2).tempo_em_que_parou
          /\ tempo_ultima_deteccao = ModoConstruido(g1, g2).tempo_ultima_deteccao
    /\ modo = ModoConstruido(0, 0).modo
    /\ modo_anterior = ModoConstruido(0, 0).modo_anterior
    /\ tempo_ultima_checagem = ModoConstruido(0, 0).tempo_ultima_checagem
    \* checagem_atual does not exist before the first atualiza_modo
    /\ checagem_atual = 0

\* History of the evaluations, kept beside the fields and never read by
\* the code:
\*   n        evaluations so far, saturating at 2
\*   mov      the motion signal of the last evaluation (line 405)
\*   checkTardio    the time from the previous evaluation's last read (441)
\*                  to this evaluation's first read (403), Delta-check, is
\*                  greater than max_tempo_sem_atualizar_modo
\*   stopVencido    the time, at the read of line 406, since the mode last
\*                  entered 'parado' from another mode, Delta-stop, is at
\*                  least max_tempo_parado
\*   detectVencido  the time, at the read of line 408, since the last
\*                  evaluation whose result was 'detectando', Delta-detect,
\*                  is at least max_tempo_sem_deteccao
\*   entrouParado, ultimoDetectando   those two instants
\*   cenario  tracking is enabled, every evaluation so far saw motion, every
\*            evaluation after the first came at most
\*            max_tempo_sem_atualizar_modo after the one before, and no
\*            evaluation before this one (the first aside) had
\*            Delta-detect >= max_tempo_sem_deteccao
\*   fimAval  the instant of the last read of the clock in the last
\*            evaluation (line 441)
\*   parouMudou, deteccaoMudou   the last evaluation left
\*            tempo_em_que_parou, tempo_ultima_deteccao at another instant
\*            than it found it
\*   recuou   the last evaluation moved one of the three recorded times
\*            back
AvalInicial ==
    [n |-> 0, mov |-> FALSE, checkTardio |-> FALSE, stopVencido |-> FALSE,
     detectVencido |-> FALSE,
     entrouParado |-> 0 - Janela, ultimoDetectando |-> 0 - Janela,
     cenario |-> FALSE,
     fimAval |-> 0 - Janela, parouMudou |-> FALSE, deteccaoMudou |-> FALSE,
     recuou |-> FALSE]

\* The fields after ModoDeteccao.atualiza_modo, lines 402-442, with motion
\* signal mov.  The
\* time.time() reads are at 403 (the present instant, offset 0), 406 (g1
\* later), 408 (g2 later), 437 or 439 (g3 later) and 441 (g4 later); the
\* new state is taken at the last read, so every recorded time is moved
\* back by the time up to that read.
AtualizaCampos(mov, g1, g2, g3, g4) ==
    LET anterior == modo
        t403 == 0
        t406 == t403 + g1
        t408 == t406 + g2
        t437 == t408 + g3
        t441 == t437 + g4
        parado_demais == ParadoDemais(t406, tempo_em_que_parou, max_tempo_parado)
        sem_detectar_demais ==
            SemDetectarDemais(t408, tempo_ultima_deteccao, max_tempo_sem_deteccao)
        excedido == MaxTempoChecagemExcedido(tempo_ultima_checagem, t403)
        novo == ProximoModo(anterior, modo, mov, parado_demais,
                            sem_detectar_demais, excedido, usar_rastreamento)
    IN  /\ modo_anterior' = anterior
        /\ checagem_atual' = Recua(t403, t441)
        /\ modo' = novo
        /\ tempo_em_que_parou' =
              IF RegistraParada(novo, anterior) THEN Recua(t437, t441)
              ELSE Recua(tempo_em_que_parou, t441)
        /\ tempo_ultima_deteccao' =
              IF RegistraDeteccao(novo, anterior) THEN Recua(t437, t441)
              ELSE Recua(tempo_ultima_deteccao, t441)
        /\ tempo_ultima_checagem' = 0
        /\ UNCHANGED cfgVars

\* The history of the evaluation that AtualizaCampos makes.
AtualizaHistoria(mov, g1, g2, g3, g4) ==
    LET anterior == modo
        novo == modo'
        t403 == 0
        t406 == t403 + g1
        t408 == t406 + g2
        t437 == t408 + g3
        t441 == t437 + g4
        tardio == t403 - tempo_ultima_checagem > max_tempo_sem_atualizar_modo
    IN  /\ aval' =
              [n |-> IF aval.n < 2 THEN aval.n + 1 ELSE 2,
               mov |-> mov,
               checkTardio |-> tardio,
               stopVencido |-> t406 - aval.entrouParado >= max_tempo_parado,
               detectVencido |->
                   t408 - aval.ultimoDetectando >= max_tempo_sem_deteccao,
               entrouParado |->
                   IF novo = "parado" /\ anterior # "parado"
                   THEN Recua(t437, t441)
                   ELSE Recua(aval.entrouParado, t441),
               ultimoDetectando |->
                   IF novo = "detectando" THEN Recua(t437, t441)
                   ELSE Recua(aval.ultimoDetectando, t441),
               cenario |->
                   /\ usar_rastreamento
                   /\ mov
                   /\ \/ aval.n = 0
                      \/ /\ aval.cenario
                         /\ ~tardio
                         /\ aval.n = 1 \/ ~aval.detectVencido,
               fimAval |-> 0,
               parouMudou |->
                   tempo_em_que_parou' # Recua(tempo_em_que_parou, t441),
               deteccaoMudou |->
                   tempo_ultima_deteccao' # Recua(tempo_ultima_deteccao, t441),
               recuou |->
                   \/ tempo_em_que_parou' < Recua(tempo_em_que_parou, t441)
                   \/ tempo_ultima_deteccao'
                          < Recua(tempo_ultima_deteccao, t441)
                   \/ tempo_ultima_checagem'
                          < Recua(tempo_ultima_checagem, t441)]

AtualizaModo(mov, g1, g2, g3, g4) ==
    /\ AtualizaCampos(mov, g1, g2, g3, g4)
    /\ AtualizaHistoria(mov, g1, g2, g3, g4)

\* d ticks of wall-clock time pass: every recorded time is d further back.
Envelhece(d) ==
    /\ tempo_em_que_parou' = Recua(tempo_em_que_parou, d)
    /\ tempo_ultima_deteccao' = Recua(tempo_ultima_deteccao, d)
    /\ tempo_ultima_checagem' = Recua(tempo_ultima_checagem, d)
    /\ checagem_atual' = Recua(checagem_atual, d)
    /\ aval' = [aval EXCEPT !.entrouParado = Recua(@, d),
                            !.ultimoDetectando = Recua(@, d),
                            !.fimAval = Recua(@, d)]
    /\ UNCHANGED <<cfgVars, modo, modo_anterior>>

\* ------------------------------------------------ collaborators of run
Caixas == 1..MaxCaixas
Duracoes == {0, DurLonga}

\* CaixasObjetos (deteccao_lib.caixas_objetos_lib), as the registry of the
\* specification: the boxes held and the number of scores held with them.
RegistroVazio == [caixas |-> {}, pesos |-> 0]
\* CaixasObjetos.atualizar(caixas, pesos, caixas_paradas): frozen, the held
\* boxes and scores stay; otherwise the fresh ones replace them.  What is
\* held afterwards is also what the call returns.
RegistroAtualizar(reg, cx, ps, caixas_paradas) ==
    IF caixas_paradas THEN reg ELSE [caixas |-> cx, pesos |-> ps]
\* CaixasObjetos.reiniciar()
RegistroReiniciar(reg) == RegistroVazio
\* len(CaixasObjetos)
RegistroLen(reg) == Cardinality(reg.caixas)

\* PessoasHistorico.atualiza_periodo(valor): the sample recorded last, and
\* the iteration that recorded it.
HistoricoVazio == [ultimo |-> -1, it |-> -1]
HistoricoAtualiza(hist, valor, i) == [ultimo |-> valor, it |-> i]

\* Rastreador (imagelib.rastreadores): the boxes it follows, and whether it
\* was seeded since the last iteration that did not track.
RastreadorNovo == [alvos |-> {}, semeado |-> FALSE]
\* Rastreador.reiniciar() then adiciona_rastreadores(frame, caixas)
RastreadorSemeia(r, cx) == [alvos |-> cx, semeado |-> TRUE]

\* LoopPeriodControl.force_minimum_loop_period(): the time still to wait so
\* that the period since the last mark (marco, an offset from now) is
\* PERIODO_MINIMO.
EsperaDoPeriodo(marco) == Max(0, PERIODO_MINIMO - (0 - marco))

\* ------------------------------------------------ DetectorPessoasVideo
\* Mutant: the merge is never frozen.
CaixasParadas_Nunca(m) == FALSE

\* Mutant: the merge is always frozen.
CaixasParadas_Sempre(m) == TRUE

\* line 256
CaixasParadas(m) == m = "parado"

\* Mutant: no iteration counts as slow.
IteracaoLenta_Nunca(agora, comeco) == FALSE

\* line 252
IteracaoLenta(agora, comeco) == agora - comeco > MAX_TEMPO_ENTRE_REGISTROS

\* Mutant: the history is given the count held before the merge.
ValorRegistrado_Antes == RegistroLen(iter.reg_antes)

\* line 262: the value handed to the history is the length of the list the
\* merge returned (caixas, after line 255).
ValorRegistrado == Cardinality(caixas)

\* Mutant: the mode is never reported as changed.
MudouModo_Nunca == FALSE

\* ModoDeteccao.mudou_modo, lines 444-450
MudouModo == modo # modo_anterior

\* What a reader can see of the work of run: the registry, the published
\* frame and mode, and the history.
Foto ==
    [reg |-> pessoas_registradas, frame |-> self_frame, modo |-> self_modo,
     hist |-> pessoas_historico]
SemFoto ==
    [reg |-> RegistroVazio, frame |-> -1, modo |-> [modo |-> "", it |-> -1],
     hist |-> HistoricoVazio]

\* The positions of run inside an iteration.
EmIteracao ==
    {"le", "modo", "ramo", "lento", "atualizar", "publica_frame",
     "publica_modo", "historico", "ritmo"}

\* History of the iteration under way, never read by the code:
\*   fase          "andando" once the frame is read, "fundida" once the
\*                 registry is merged, "completa" once the history has its
\*                 sample; "nenhuma" between iterations
\*   reg_antes     the registry as the iteration found it
\*   produzidas    the boxes the detector or the tracker returned
\*   lenta         line 253 reset the registry in this iteration
\*   parada_lenta  some iteration of the stopped run under way was slow
\*   cont_ativa    the count the last 'detectando' or 'rastreando' iteration
\*                 left in the registry
\*   reg_it        the iteration whose merge the registry holds, -2 between
\*                 a reset and the merge that follows it
\*   visto         the count that the last pega_quantidade_pessoas called
\*                 in this iteration before its merge returned, -1 if none
\*   antes         what the readers could see when the iteration began
\*                 (Foto), up to the end of the mode branch
\*   falhou        the call that raised: "leitura" (stream.read), "deteccao"
\*                 (detectar), "rastreador" (the tracker), or "nao"
\*   pedido        the iteration during which stop() was first called,
\*                 -1 if it was not called during an iteration
\*   n_stop        calls of stop() from outside run: 0, 1, or 2 for more
\*                 than one
\*   n_fim         times the shutdown of lines 266-269 was executed
\*   ritmo_it      the iteration that was paced last, -1 if none
\*   decorrido     the time the calls of the iteration have taken so far,
\*                 up to JanelaLoop
\*   semeou, avancou   the tracker was reset and seeded, was advanced, in
\*                 the mode branch of the iteration
IterInicial ==
    [fase |-> "nenhuma", reg_antes |-> RegistroVazio, produzidas |-> {},
     lenta |-> FALSE, parada_lenta |-> FALSE, cont_ativa |-> 0,
     reg_it |-> -1, visto |-> -1, antes |-> SemFoto, falhou |-> "nao",
     pedido |-> -1, n_stop |-> 0, n_fim |-> 0, ritmo_it |-> -1,
     decorrido |-> 0, semeou |-> FALSE, avancou |-> FALSE]

\* A thread in pega_frame: its position, and the iterations that wrote the
\* frame, the mode and the boxes it has read.
LeitorInicial == [pc |-> "ocioso", frame |-> -1, modo |-> -1, caixas |-> -1]

\* The fields of a DetectorPessoasVideo after __init__ (lines 69-78), and
\* the thread of run not yet started.
ObjetoConstruido ==
    /\ stopped = FALSE
    /\ self_frame = -1
    /\ self_modo = [modo |-> "", it |-> -1]
    /\ pessoas_registradas = RegistroVazio
    /\ pessoas_historico = HistoricoVazio
    /\ pc = "inicio"
    /\ tempo_comeco_iteracao = 0
    /\ frame_iter = -1 /\ modo_iter = "" /\ caixas = {} /\ pesos = 0
    /\ rastreador = RastreadorNovo
    /\ controla_periodo_loop = 0
    /\ detector_movimento = "nenhum"
    /\ stream = "aberto"
    /\ it = 0
    /\ iter = IterInicial
    /\ leitor = LeitorInicial

\* DetectorPessoasVideo.__init__ (lines 50-78) with arguments that pass its
\* checks, then configura_video or recebe_video, and configura_detector or
\* not.
InitLoop ==
    /\ max_tempo_sem_deteccao \in {0, LimiteLoop}
    /\ max_tempo_parado = LimiteLoop
    /\ usar_rastreamento \in BOOLEAN
    /\ max_tempo_sem_atualizar_modo = PadraoMaxTempoSemAtualizarModo
    /\ construcao = [max_tempo_sem_deteccao |-> max_tempo_sem_deteccao,
                     max_tempo_parado |-> max_tempo_parado,
                     max_largura_frame |-> 1, resultado |-> "ok"]
    /\ modo = "" /\ modo_anterior = ""
    /\ tempo_em_que_parou = 0 /\ tempo_ultima_deteccao = 0
    /\ tempo_ultima_checagem = 0 /\ checagem_atual = 0
    /\ aval = AvalInicial
    /\ stream_externo \in BOOLEAN
    /\ configurado \in BOOLEAN
    /\ ObjetoConstruido

\* The start of the iteration is told apart up to JanelaLoop ticks ago,
\* beyond both MAX_TEMPO_ENTRE_REGISTROS and PERIODO_MINIMO, and the mark of
\* the period control up to PERIODO_MINIMO ticks ago, where the wait is
\* already zero.
JanelaLoop == Max(MAX_TEMPO_ENTRE_REGISTROS, PERIODO_MINIMO) + 1
RecuaLoop(t, d) == Max(t - d, 0 - JanelaLoop)
RecuaMarco(t, d) == Max(t - d, 0 - PERIODO_MINIMO)

\* d ticks pass while the thread of run is blocked.
EnvelheceLoop(d) ==
    /\ tempo_comeco_iteracao' = RecuaLoop(tempo_comeco_iteracao, d)
    /\ controla_periodo_loop' = RecuaMarco(controla_periodo_loop, d)

\* run, lines 197-213: returns at once when the stream or the detector is
\* not configured; otherwise starts the stream and the motion detector and
\* builds the mode controller, the tracker and the period control.
LoopInicio ==
    /\ pc = "inicio"
    /\ IF ~configurado
       THEN /\ pc' = "retornou"
            /\ UNCHANGED <<mdVars, aval, stream, detector_movimento,
                           rastreador, controla_periodo_loop>>
       ELSE /\ pc' = "teste"
            /\ stream' = "iniciado"
            /\ detector_movimento' = "iniciado"
            /\ tempo_em_que_parou' = ModoConstruido(0, 0).tempo_em_que_parou
            /\ tempo_ultima_deteccao' = ModoConstruido(0, 0).tempo_ultima_deteccao
            /\ modo' = ModoConstruido(0, 0).modo
            /\ modo_anterior' = ModoConstruido(0, 0).modo_anterior
            /\ tempo_ultima_checagem' = ModoConstruido(0, 0).tempo_ultima_checagem
            /\ rastreador' = RastreadorNovo
            /\ controla_periodo_loop' = 0
            /\ UNCHANGED <<cfgVars, checagem_atual, aval>>
    /\ UNCHANGED <<stopped, stream_externo, configurado, self_frame, self_modo,
                   pessoas_registradas, pessoas_historico,
                   tempo_comeco_iteracao, frame_iter, modo_iter, caixas, pesos,
                   it, iter, leitor>>

\* Mutant: the loop test does not read the stop request.
ContinuaLoop_Sempre == TRUE

\* line 215: while not self.stopped
ContinuaLoop == ~stopped

\* line 215: the loop test.
LoopTeste ==
    /\ pc = "teste"
    /\ pc' = IF ContinuaLoop THEN "le" ELSE "fim"
    /\ it' = IF ContinuaLoop THEN (it + 1) % NumIt ELSE it
    /\ iter' = IF ContinuaLoop THEN [iter EXCEPT !.antes = Foto] ELSE iter
    /\ UNCHANGED <<mdVars, aval, stopped, stream_externo, configurado,
                   self_frame, self_modo, pessoas_registradas,
                   pessoas_historico, tempo_comeco_iteracao, frame_iter,
                   modo_iter, caixas, pesos, rastreador,
                   controla_periodo_loop, detector_movimento, stream,
                   leitor>>

\* lines 217-226: the iteration's start time is read, then stream.read()
\* takes d ticks and returns a frame (ok) or raises StreamClosedError or
\* StreamStoppedError, which ends the loop.
LoopLe(d, ok) ==
    /\ pc = "le"
    /\ Envelhece(d)
    /\ tempo_comeco_iteracao' = RecuaLoop(0, d)
    /\ controla_periodo_loop' = RecuaMarco(controla_periodo_loop, d)
    /\ IF ok
       THEN /\ pc' = "modo"
            /\ frame_iter' = it
            /\ iter' = [iter EXCEPT !.fase = "andando",
                                    !.reg_antes = pessoas_registradas,
                                    !.produzidas = {},
                                    !.lenta = FALSE,
                                    !.decorrido = Min(d, JanelaLoop)]
       ELSE /\ pc' = "fim"
            /\ iter' = [iter EXCEPT !.falhou = "leitura"]
            /\ UNCHANGED frame_iter
    /\ UNCHANGED <<stopped, stream_externo, configurado, self_frame, self_modo,
                   pessoas_registradas, pessoas_historico, modo_iter, caixas,
                   pesos, rastreador, detector_movimento, stream, it, leitor>>

\* line 230: modo = modo_deteccao.atualiza_modo(frame).  Beside the calls
\* to the collaborators, which take whole ticks, the reads of the clock in
\* one call fall in the same tick.
LoopModo(mov) ==
    /\ pc = "modo"
    /\ AtualizaCampos(mov, 0, 0, 0, 0)
    /\ UNCHANGED <<aval, tempo_comeco_iteracao, controla_periodo_loop>>
    /\ modo_iter' = modo'
    /\ pc' = "ramo"
    /\ UNCHANGED <<stopped, stream_externo, configurado, self_frame, self_modo,
                   pessoas_registradas, pessoas_historico, frame_iter, caixas,
                   pesos, rastreador, detector_movimento, stream, it, iter,
                   leitor>>


\* Mutant: a failure of the detector is passed over.
AposFalhaDeteccao_Segue == "lento"

\* lines 235-238: the except clause ends the loop (break).
AposFalhaDeteccao == "fim"

\* lines 232-249: the branch on the mode.  'detectando': detectar takes d
\* ticks and returns any boxes, with one score each, or raises (falha),
\* which ends the loop.  'rastreando': the tracker is reset and seeded with
\* the registry's boxes when the mode has just changed, then advanced; it
\* takes d ticks and returns boxes among its targets, or raises (falha),
\* which nothing in run catches.  'parado': no boxes.
LoopRamo(d, cx, falha) ==
    /\ pc = "ramo"
    /\ IF modo_iter = "detectando"
       THEN IF falha
            THEN /\ pc' = AposFalhaDeteccao
                 /\ iter' = [iter EXCEPT !.falhou = "deteccao"]
                 /\ UNCHANGED <<caixas, pesos, rastreador>>
            ELSE /\ pc' = "lento"
                 /\ caixas' = cx
                 /\ pesos' = Cardinality(cx)
                 /\ rastreador' = [rastreador EXCEPT !.semeado = FALSE]
                 /\ iter' = [iter EXCEPT !.produzidas = cx,
                                         !.antes = SemFoto,
                                         !.decorrido = Min(@ + d, JanelaLoop),
                                         !.semeou = FALSE,
                                         !.avancou = FALSE]
       ELSE IF modo_iter = "rastreando"
       THEN LET semeado == IF MudouModo
                           THEN RastreadorSemeia(rastreador,
                                                 pessoas_registradas.caixas)
                           ELSE rastreador
            IN  /\ rastreador' = semeado
                /\ IF falha
                   THEN /\ pc' = "abortou"
                        /\ iter' = [iter EXCEPT !.falhou = "rastreador"]
                        /\ UNCHANGED <<caixas, pesos>>
                   ELSE /\ cx \subseteq semeado.alvos
                        /\ pc' = "lento"
                        /\ caixas' = cx
                        /\ pesos' = 0
                        /\ iter' = [iter EXCEPT !.produzidas = cx,
                                                !.antes = SemFoto,
                                                !.decorrido = Min(@ + d, JanelaLoop),
                                                !.semeou = MudouModo,
                                                !.avancou = TRUE]
       ELSE /\ d = 0 /\ cx = {} /\ ~falha
            /\ pc' = "lento"
            /\ caixas' = {}
            /\ pesos' = 0
            /\ rastreador' = [rastreador EXCEPT !.semeado = FALSE]
            /\ iter' = [iter EXCEPT !.antes = SemFoto,
                                    !.semeou = FALSE,
                                    !.avancou = FALSE]
    /\ Envelhece(d)
    /\ EnvelheceLoop(d)
    /\ UNCHANGED <<stopped, stream_externo, configurado, self_frame, self_modo,
                   pessoas_registradas, pessoas_historico, frame_iter,
                   modo_iter, detector_movimento, stream, it, leitor>>

\* lines 251-253: a slow iteration resets the registry.
LoopLento ==
    /\ pc = "lento"
    /\ pc' = "atualizar"
    /\ IF IteracaoLenta(0, tempo_comeco_iteracao)
       THEN /\ pessoas_registradas' = RegistroReiniciar(pessoas_registradas)
            /\ iter' = [iter EXCEPT !.lenta = TRUE, !.reg_it = -2]
       ELSE UNCHANGED <<pessoas_registradas, iter>>
    /\ UNCHANGED <<mdVars, aval, stopped, stream_externo, configurado,
                   self_frame, self_modo, pessoas_historico,
                   tempo_comeco_iteracao, frame_iter, modo_iter, caixas, pesos,
                   rastreador, controla_periodo_loop, detector_movimento,
                   stream, it, leitor>>

\* lines 255-257: the merge; caixas and pesos become what it returns.
LoopAtualizar ==
    /\ pc = "atualizar"
    /\ pc' = "publica_frame"
    /\ LET novo == RegistroAtualizar(pessoas_registradas, caixas, pesos,
                                     CaixasParadas(modo_iter))
       IN  /\ pessoas_registradas' = novo
           /\ caixas' = novo.caixas
           /\ pesos' = novo.pesos
    /\ iter' = [iter EXCEPT !.fase = "fundida", !.reg_it = it]
    /\ UNCHANGED <<mdVars, aval, stopped, stream_externo, configurado,
                   self_frame, self_modo, pessoas_historico,
                   tempo_comeco_iteracao, frame_iter, modo_iter, rastreador,
                   controla_periodo_loop, detector_movimento, stream, it,
                   leitor>>

\* line 258: self.frame = frame.copy()
LoopPublicaFrame ==
    /\ pc = "publica_frame"
    /\ pc' = "publica_modo"
    /\ self_frame' = frame_iter
    /\ UNCHANGED <<mdVars, aval, stopped, stream_externo, configurado,
                   self_modo, pessoas_registradas, pessoas_historico,
                   tempo_comeco_iteracao, frame_iter, modo_iter, caixas, pesos,
                   rastreador, controla_periodo_loop, detector_movimento,
                   stream, it, iter, leitor>>

\* line 259: self.modo = modo
LoopPublicaModo ==
    /\ pc = "publica_modo"
    /\ pc' = "historico"
    /\ self_modo' = [modo |-> modo_iter, it |-> it]
    /\ UNCHANGED <<mdVars, aval, stopped, stream_externo, configurado,
                   self_frame, pessoas_registradas, pessoas_historico,
                   tempo_comeco_iteracao, frame_iter, modo_iter, caixas, pesos,
                   rastreador, controla_periodo_loop, detector_movimento,
                   stream, it, iter, leitor>>

\* line 262: the count of this cycle goes to the history.
LoopHistorico ==
    /\ pc = "historico"
    /\ pc' = "ritmo"
    /\ pessoas_historico' = HistoricoAtualiza(pessoas_historico, ValorRegistrado, it)
    /\ iter' = [iter EXCEPT
                   !.fase = "completa",
                   !.parada_lenta = IF modo_iter = "parado"
                                    THEN @ \/ iter.lenta ELSE FALSE,
                   !.cont_ativa = IF modo_iter = "parado" THEN @
                                  ELSE RegistroLen(pessoas_registradas)]
    /\ UNCHANGED <<mdVars, aval, stopped, stream_externo, configurado,
                   self_frame, self_modo, pessoas_registradas,
                   tempo_comeco_iteracao, frame_iter, modo_iter, caixas, pesos,
                   rastreador, controla_periodo_loop, detector_movimento,
                   stream, it, leitor>>

\* line 264: the thread sleeps until the minimum period since the mark of
\* the period control is over.  run never calls the start() that sets the
\* mark again (line 213 builds the control, line 264 is its only use), so
\* the mark stays where the construction put it.
LoopRitmo ==
    /\ pc = "ritmo"
    /\ pc' = "teste"
    /\ LET espera == EsperaDoPeriodo(controla_periodo_loop)
       IN  /\ Envelhece(espera)
           /\ EnvelheceLoop(espera)
    /\ iter' = [iter EXCEPT !.fase = "nenhuma", !.reg_antes = RegistroVazio,
                            !.produzidas = {}, !.visto = -1,
                            !.ritmo_it = it, !.decorrido = 0]
    /\ UNCHANGED <<stopped, stream_externo, configurado, self_frame, self_modo,
                   pessoas_registradas, pessoas_historico, frame_iter,
                   modo_iter, caixas, pesos, rastreador, detector_movimento,
                   stream, it, leitor>>

\* Mutant: stop() flips the flag.
AposStop_Alterna == ~stopped

\* line 189: self.stopped = True
AposStop == TRUE

\* lines 266-269: the motion detector is stopped, the stream too unless it
\* came from outside, and stop() is called.
LoopFim ==
    /\ pc = "fim"
    /\ pc' = "terminou"
    /\ detector_movimento' = "parado"
    /\ stream' = IF ~stream_externo THEN "parado" ELSE stream
    /\ stopped' = AposStop
    /\ iter' = [iter EXCEPT !.n_fim = @ + 1]
    /\ UNCHANGED <<mdVars, aval, stream_externo, configurado, self_frame,
                   self_modo, pessoas_registradas, pessoas_historico,
                   tempo_comeco_iteracao, frame_iter, modo_iter, caixas, pesos,
                   rastreador, controla_periodo_loop, it, leitor>>

\* stop(), lines 187-189, called from another thread at any moment, any
\* number of times.
Stop ==
    /\ stopped' = AposStop
    /\ iter' = [iter EXCEPT
                   !.n_stop = Min(@ + 1, 2),
                   !.pedido = IF ~stopped /\ pc \in EmIteracao THEN it ELSE @]
    /\ UNCHANGED <<mdVars, aval, stream_externo, configurado, self_frame,
                   self_modo, pessoas_registradas, pessoas_historico, pc,
                   tempo_comeco_iteracao, frame_iter, modo_iter, caixas, pesos,
                   rastreador, controla_periodo_loop, detector_movimento,
                   stream, it, leitor>>

Le == \E d \in Duracoes, ok \in BOOLEAN : LoopLe(d, ok)

AvaliaNoLoop == \E mov \in BOOLEAN : LoopModo(mov)

Ramo == \E d \in Duracoes, cx \in SUBSET Caixas, falha \in BOOLEAN :
            LoopRamo(d, cx, falha)

NextLoop ==
    \/ LoopInicio
    \/ LoopTeste
    \/ Le
    \/ AvaliaNoLoop
    \/ Ramo
    \/ LoopLento
    \/ LoopAtualizar
    \/ LoopPublicaFrame
    \/ LoopPublicaModo
    \/ LoopHistorico
    \/ LoopRitmo
    \/ LoopFim
    \/ Stop

SpecLoop == InitLoop /\ [][NextLoop]_vars

\* The steps of the thread of run.
Corre ==
    \/ LoopInicio \/ LoopTeste \/ Le \/ AvaliaNoLoop \/ Ramo \/ LoopLento
    \/ LoopAtualizar \/ LoopPublicaFrame \/ LoopPublicaModo \/ LoopHistorico
    \/ LoopRitmo \/ LoopFim

\* A configured detector with tracking, on a stream of either origin.
InitLoopLive ==
    /\ InitLoop
    /\ configurado
    /\ usar_rastreamento
    /\ max_tempo_sem_deteccao = LimiteLoop

\* The thread of run is scheduled and every call it makes comes back.
SpecLoopLive == InitLoopLive /\ [][NextLoop]_vars /\ WF_vars(Corre)

\* ------------------------------------------------------------ pega_frame
\* pega_frame(mostrar_caixas=True, mostrar_modo=True) in another thread.
\* lines 305-310: before any frame is published a black image is returned;
\* otherwise the published frame is copied.
LeitorFrame ==
    /\ leitor.pc = "ocioso"
    /\ leitor' = IF self_frame = -1
                 THEN [leitor EXCEPT !.pc = "retornou"]
                 ELSE [leitor EXCEPT !.pc = "leu_frame", !.frame = self_frame]
    /\ UNCHANGED <<mdVars, aval, loopVars>>

\* lines 312-313: the published mode is written on the copy.
LeitorModo ==
    /\ leitor.pc = "leu_frame"
    /\ leitor' = [leitor EXCEPT !.pc = "leu_modo", !.modo = self_modo.it]
    /\ UNCHANGED <<mdVars, aval, loopVars>>

\* lines 318-320: the registry's boxes are drawn on the copy.
LeitorCaixas ==
    /\ leitor.pc = "leu_modo"
    /\ leitor' = [leitor EXCEPT !.pc = "pronto", !.caixas = iter.reg_it]
    /\ UNCHANGED <<mdVars, aval, loopVars>>

\* line 322 (or 306): the call returns; the next call may start.
LeitorRetorna ==
    /\ leitor.pc \in {"pronto", "retornou"}
    /\ leitor' = LeitorInicial
    /\ UNCHANGED <<mdVars, aval, loopVars>>

\* pega_quantidade_pessoas, lines 272-279, called from another thread at
\* any moment: one read of the registry's length.
PegaQuantidade ==
    /\ leitor.pc = "ocioso"
    /\ iter' = IF iter.fase = "andando"
               THEN [iter EXCEPT !.visto = RegistroLen(pessoas_registradas)]
               ELSE iter
    /\ UNCHANGED <<mdVars, aval, stopped, stream_externo, configurado,
                   self_frame, self_modo, pessoas_registradas,
                   pessoas_historico, pc, tempo_comeco_iteracao, frame_iter,
                   modo_iter, caixas, pesos, rastreador,
                   controla_periodo_loop, detector_movimento, stream, it,
                   leitor>>

NextLeitor ==
    \/ NextLoop
    \/ PegaQuantidade
    \/ LeitorFrame
    \/ LeitorModo
    \/ LeitorCaixas
    \/ LeitorRetorna

\* One configured detector with tracking, and a reader.
InitLeitor ==
    /\ InitLoop
    /\ configurado
    /\ ~stream_externo
    /\ usar_rastreamento
    /\ max_tempo_sem_deteccao = LimiteLoop

SpecLeitor == InitLeitor /\ [][NextLeitor]_vars

\* ------------------------------------- DetectorPessoasVideo.__init__
\* The arguments a caller may pass for the two time limits and the width.
Argumentos == (0 - 1)..MaxArg

\* lines 56-64: none of the three checks raises ValueError.
ArgumentosAceitos(msd, mtp, mlf) ==
    /\ ~(msd < 0)
    /\ ~(mtp <= 0)
    /\ ~(mlf <= 0)

\* A call of the constructor about to be made, with any arguments.
InitConstrutor ==
    /\ construcao \in [max_tempo_sem_deteccao : Argumentos,
                       max_tempo_parado : Argumentos,
                       max_largura_frame : Argumentos,
                       resultado : {"chamado"}]
    /\ usar_rastreamento \in BOOLEAN
    /\ max_tempo_sem_deteccao = 0
    /\ max_tempo_parado = 0
    /\ max_tempo_sem_atualizar_modo = PadraoMaxTempoSemAtualizarModo
    /\ modo = "" /\ modo_anterior = ""
    /\ tempo_em_que_parou = 0 /\ tempo_ultima_deteccao = 0
    /\ tempo_ultima_checagem = 0 /\ checagem_atual = 0
    /\ aval = AvalInicial
    /\ stream_externo = FALSE
    /\ configurado = FALSE
    /\ ObjetoConstruido

\* __init__, lines 50-78: ValueError when a check fails, otherwise the
\* limits are stored.
Constroi ==
    /\ construcao.resultado = "chamado"
    /\ IF ArgumentosAceitos(construcao.max_tempo_sem_deteccao,
                            construcao.max_tempo_parado,
                            construcao.max_largura_frame)
       THEN /\ construcao' = [construcao EXCEPT !.resultado = "ok"]
            /\ max_tempo_sem_deteccao' = construcao.max_tempo_sem_deteccao
            /\ max_tempo_parado' = construcao.max_tempo_parado
       ELSE /\ construcao' = [construcao EXCEPT !.resultado = "ValueError"]
            /\ UNCHANGED <<max_tempo_sem_deteccao, max_tempo_parado>>
    /\ UNCHANGED <<usar_rastreamento, max_tempo_sem_atualizar_modo, modo,
                   modo_anterior, tempo_em_que_parou, tempo_ultima_deteccao,
                   tempo_ultima_checagem, checagem_atual, aval, loopVars,
                   leitor>>

\* configura_video (lines 80-131) or recebe_video (133-145), then
\* configura_detector (147-175), on the object the constructor returned.
Configura(externo) ==
    /\ construcao.resultado = "ok"
    /\ pc = "inicio"
    /\ ~configurado
    /\ configurado' = TRUE
    /\ stream_externo' = externo
    /\ UNCHANGED <<mdVars, aval, stopped, self_frame, self_modo,
                   pessoas_registradas, pessoas_historico, pc,
                   tempo_comeco_iteracao, frame_iter, modo_iter, caixas, pesos,
                   rastreador, controla_periodo_loop, detector_movimento,
                   stream, it, iter, leitor>>

ConfiguraVideo == \E externo \in BOOLEAN : Configura(externo)

\* start(), lines 177-185, on the object the constructor returned: the
\* thread begins run.
Inicia ==
    /\ construcao.resultado = "ok"
    /\ LoopInicio

NextConstrutor == Constroi \/ ConfiguraVideo \/ Inicia

SpecConstrutor == InitConstrutor /\ [][NextConstrutor]_vars

\* ------------------------------------------- ModoDeteccao on its own
Init ==
    /\ InitModo
    /\ aval = AvalInicial
    /\ stream_externo = FALSE
    /\ configurado = FALSE
    /\ ObjetoConstruido

\* The caller evaluates the mode, with either motion signal.
Avalia ==
    \E mov \in BOOLEAN, g1 \in Gaps, g2 \in Gaps, g3 \in Gaps, g4 \in Gaps :
        /\ g1 + g2 + g3 + g4 <= MaxReadGap
        /\ AtualizaModo(mov, g1, g2, g3, g4)
        /\ UNCHANGED <<loopVars, leitor>>

\* One tick passes between two evaluations.
PassaTempo == Envelhece(1) /\ UNCHANGED <<loopVars, leitor>>

Next == Avalia \/ PassaTempo

Spec == Init /\ [][Next]_vars

\* The caller keeps evaluating and the clock keeps advancing.
SpecLive == Spec /\ WF_vars(Avalia) /\ WF_vars(PassaTempo)

\* ------------------------------------------------------------- claims
Modos == {"detectando", "rastreando", "parado"}

\* C1 (as claimed): at an evaluation that comes more than
\* max_tempo_sem_atualizar_modo after the previous one, the resulting mode
\* is never 'rastreando'.
C1_ChecagemTardiaNaoRastreia ==
    (aval.n >= 1 /\ aval.checkTardio) => modo # "rastreando"

\* C2: from 'parado' the result is 'detectando' exactly when there was
\* motion or Delta-stop >= max_tempo_parado, and 'parado' otherwise; never
\* 'rastreando'.
C2_SaidaDeParado ==
    (aval.n >= 1 /\ modo_anterior = "parado") =>
        modo = IF aval.mov \/ aval.stopVencido THEN "detectando" ELSE "parado"

\* C2's case: a stopped run ended by the time limit alone.
C2_Witness ==
    /\ aval.n >= 1 /\ modo_anterior = "parado"
    /\ ~aval.mov /\ aval.stopVencido /\ modo = "detectando"

\* C3: from 'rastreando' the result is 'detectando' when there is no motion
\* or Delta-detect >= max_tempo_sem_deteccao; it is 'rastreando' when there
\* is motion, Delta-detect is below the limit and Delta-check is within
\* max_tempo_sem_atualizar_modo; it is never 'parado'.
C3_SaidaDeRastreando ==
    (aval.n >= 1 /\ modo_anterior = "rastreando") =>
        /\ (~aval.mov \/ aval.detectVencido) => modo = "detectando"
        /\ (aval.mov /\ ~aval.detectVencido /\ ~aval.checkTardio)
               => modo = "rastreando"
        /\ modo # "parado"

\* C3's case: tracking left because Delta-detect reached the limit, with
\* motion present.
C3_Witness ==
    /\ aval.n >= 1 /\ modo_anterior = "rastreando"
    /\ aval.mov /\ aval.detectVencido /\ modo = "detectando"

\* C4: the first evaluation yields 'detectando', and from then on the mode
\* is one of the three modes, never unset.
C4_PrimeiraAvaliacao ==
    /\ aval.n = 1 => modo = "detectando"
    /\ aval.n >= 1 => modo \in Modos

\* C4's case: the first evaluation was made, without motion.
C4_Witness == aval.n = 1 /\ ~aval.mov /\ modo = "detectando"

\* C5: from 'detectando' without motion the result is 'parado', and the
\* stopped-entry time is a time read during this evaluation (between its
\* first read and its last).
C5_DetectandoSemMovimento ==
    (aval.n >= 1 /\ modo_anterior = "detectando" /\ ~aval.mov) =>
        /\ modo = "parado"
        /\ checagem_atual <= tempo_em_que_parou
        /\ tempo_em_que_parou <= tempo_ultima_checagem

\* C5's case: with tracking enabled and a late check, detecting saw no
\* motion and the mode became stopped.
C5_Witness ==
    /\ aval.n >= 1 /\ modo_anterior = "detectando" /\ ~aval.mov
    /\ usar_rastreamento /\ aval.checkTardio /\ modo = "parado"

\* C6 (as claimed): with tracking enabled, motion at every evaluation and
\* evaluations at most max_tempo_sem_atualizar_modo apart, the first mode is
\* 'detectando' and every later one is 'rastreando', up to the first
\* evaluation with Delta-detect >= max_tempo_sem_deteccao, whose mode is
\* 'detectando'.
C6_CenarioRastreamento ==
    aval.cenario =>
        /\ aval.n = 1 => modo = "detectando"
        /\ aval.n >= 2 =>
              modo = IF aval.detectVencido THEN "detectando" ELSE "rastreando"

\* C7: the mode is 'detectando' again and again; a stopped run does not go
\* on once Delta-stop >= max_tempo_parado, nor a tracking run once
\* Delta-detect >= max_tempo_sem_deteccao.
C7_DeteccaoRecorre ==
    /\ []<>(modo = "detectando")
    /\ []((aval.n >= 1 /\ modo_anterior = "parado" /\ modo = "parado")
             => ~aval.stopVencido)
    /\ []((aval.n >= 1 /\ modo_anterior = "rastreando" /\ modo = "rastreando")
             => ~aval.detectVencido)

\* C7's case: a stopped run of at least two evaluations is under way, with
\* no motion.
C7_Witness ==
    /\ aval.n >= 1 /\ modo_anterior = "parado" /\ modo = "parado"
    /\ ~aval.mov /\ tempo_em_que_parou < checagem_atual

\* C8 (as claimed): after every stopped iteration the registry is as the
\* iteration found it, and the count given to the history is the count the
\* last detecting or tracking iteration left.
C8_ParadoPreservaRegistro ==
    (pc = "ritmo" /\ modo_iter = "parado") =>
        /\ pessoas_registradas = iter.reg_antes
        /\ pessoas_historico.ultimo = iter.cont_ativa

\* C8 (amended): after every stopped iteration that was not slow the
\* registry is as the iteration found it; and in a stopped run with no slow
\* iteration so far the count given to the history is the count the last
\* detecting or tracking iteration left.
C8_ParadoNaoLentoPreservaRegistro ==
    (pc = "ritmo" /\ modo_iter = "parado") =>
        /\ ~iter.lenta => pessoas_registradas = iter.reg_antes
        /\ ~iter.parada_lenta =>
              /\ pessoas_historico.ultimo = iter.cont_ativa
              /\ pessoas_historico.ultimo = RegistroLen(pessoas_registradas)

\* C8's case: a stopped iteration that was not slow ends with the boxes and
\* scores it found in the registry.
C8_Witness ==
    /\ pc = "ritmo" /\ modo_iter = "parado" /\ ~iter.lenta
    /\ RegistroLen(pessoas_registradas) = MaxCaixas
    /\ pessoas_registradas.pesos = MaxCaixas
    /\ pessoas_historico.ultimo = MaxCaixas

\* C9: after every detecting or tracking iteration the registry's count is
\* the number of boxes the detector or tracker returned in it, and the
\* value given to the history in it is that count.
C9_ContagemAposFusao ==
    (pc = "ritmo" /\ modo_iter \in {"detectando", "rastreando"}) =>
        /\ RegistroLen(pessoas_registradas) = Cardinality(iter.produzidas)
        /\ pessoas_historico.ultimo = RegistroLen(pessoas_registradas)
        /\ pessoas_historico.it = it

\* C9's case: the detector returned no box while the registry held some.
C9_Witness ==
    /\ pc = "ritmo" /\ modo_iter = "detectando"
    /\ iter.produzidas = {} /\ RegistroLen(iter.reg_antes) > 0
    /\ pessoas_historico.ultimo = 0

\* C10 (as claimed): the frame, the mode and the boxes that one call of
\* pega_frame reads were all written by the same iteration.
C10_LeituraCoerente ==
    leitor.pc = "pronto" =>
        /\ leitor.frame = leitor.modo
        /\ leitor.modo = leitor.caixas

\* C11 (as claimed): a count that pega_quantidade_pessoas returns while an
\* iteration is under way is the count the previous iteration left or the
\* count this iteration's merge produces, never one in between.
C11_ContagemNuncaIntermediaria ==
    (iter.fase \in {"fundida", "completa"} /\ iter.visto # -1) =>
        iter.visto \in {RegistroLen(iter.reg_antes),
                        RegistroLen(pessoas_registradas)}

\* The iteration under way, or the last one, merged, published its frame
\* and mode, recorded its count and was paced.
IteracaoCompleta ==
    /\ iter.reg_it = it /\ self_frame = it /\ self_modo.it = it
    /\ pessoas_historico.it = it /\ iter.ritmo_it = it

\* run has ended through its shutdown: the motion detector is stopped, the
\* stream is stopped if it was created inside and as run started it if it
\* came from outside, and stopped is True.
Encerrado ==
    /\ pc = "terminou" /\ stopped
    /\ detector_movimento = "parado"
    /\ stream = IF stream_externo THEN "iniciado" ELSE "parado"

\* C12: a stop() called during iteration n does not cut it short (it
\* merges, publishes, records and paces unless a collaborator raises), no
\* further iteration begins, and if no collaborator raises run ends with
\* the motion detector stopped, the stream stopped exactly when it was
\* created inside, and stopped True.
C12_ParadaCooperativa ==
    /\ [](iter.pedido # -1 => it = iter.pedido)
    /\ []((pc \in {"fim", "terminou"} /\ iter.pedido # -1
            /\ iter.falhou = "nao") => IteracaoCompleta)
    /\ ((stopped /\ configurado) ~> (Encerrado \/ iter.falhou # "nao"))

\* C12's case: stop() came during an iteration, which went on to its end,
\* and run ended leaving an outside stream alone.
C12_Witness ==
    /\ iter.pedido = it /\ iter.falhou = "nao" /\ iter.n_stop >= 1
    /\ stream_externo /\ Encerrado /\ IteracaoCompleta

\* C13 (as claimed): however run ends once the stream and the motion
\* detector were started, the motion detector is stopped, and so is a
\* stream created inside.
C13_TodaSaidaParaRecursos ==
    pc \in {"terminou", "abortou"} =>
        /\ detector_movimento = "parado"
        /\ ~stream_externo => stream = "parado"

\* C14: after stream.read or detectar raises, run is in its shutdown, and
\* the registry, the published frame and mode and the history are as they
\* were when the iteration began.
C14_FalhaNaoAlteraEstado ==
    iter.falhou \in {"leitura", "deteccao"} =>
        /\ pc \in {"fim", "terminou"}
        /\ Foto = iter.antes

\* C14's case: detectar raised in an iteration that came after a completed
\* one, whose boxes are still held.
C14_Witness ==
    /\ iter.falhou = "deteccao" /\ pc = "terminou"
    /\ pessoas_historico.it # -1 /\ pessoas_historico.it # it
    /\ RegistroLen(pessoas_registradas) = MaxCaixas

\* C15 (as claimed): when an iteration is about to read its start time
\* (line 217), the start of the iteration before is at least PERIODO_MINIMO
\* back; and so it is when the pacing call of an iteration has returned.
C15_PeriodoMinimo ==
    /\ (pc = "le" /\ pessoas_historico.it # -1) =>
           0 - tempo_comeco_iteracao >= PERIODO_MINIMO
    /\ (pc = "teste" /\ iter.ritmo_it # -1) =>
           0 - tempo_comeco_iteracao >= PERIODO_MINIMO

\* C16 (as claimed): the constructor raises ValueError exactly when
\* max_tempo_sem_deteccao < 0, max_tempo_parado < 0 or
\* max_largura_frame <= 0, the ranges its docstring states, and run is
\* never started on a rejected configuration.
C16_ValidacaoDoConstrutor ==
    /\ construcao.resultado \in {"ok", "ValueError"} =>
           (construcao.resultado = "ok" <=>
               /\ construcao.max_tempo_sem_deteccao >= 0
               /\ construcao.max_tempo_parado >= 0
               /\ construcao.max_largura_frame > 0)
    /\ pc # "inicio" => construcao.resultado = "ok"

\* C17 (as claimed): with max_tempo_sem_deteccao = 0 no evaluation yields
\* 'rastreando'.
C17_LimiteZeroSempreDetecta ==
    (max_tempo_sem_deteccao = 0 /\ aval.n >= 1) =>
        modo \in {"detectando", "parado"}

\* C18: once stop() was called stopped is True and stays True, a further
\* call changes nothing of the object, and the shutdown of run is executed
\* at most once.
C18_StopIdempotente ==
    /\ [](iter.n_stop >= 1 => stopped)
    /\ [](iter.n_fim <= 1)
    /\ [][stopped => stopped']_vars
    /\ [][(stopped /\ iter.n_stop' # iter.n_stop) =>
             /\ stopped' /\ pc' = pc /\ stream' = stream
             /\ detector_movimento' = detector_movimento]_vars

\* C18's case: stop() was called more than once and run went through its
\* shutdown.
C18_Witness ==
    /\ iter.n_stop = 2 /\ iter.n_fim = 1 /\ Encerrado

\* The positions of an iteration after its mode branch.
AposRamo ==
    {"lento", "atualizar", "publica_frame", "publica_modo", "historico",
     "ritmo"}

\* C19 (as claimed): a tracking iteration seeds the tracker exactly when
\* the evaluation changed the mode into 'rastreando', advances it exactly
\* when it does not seed it, and leaves a tracker that was seeded since the
\* last iteration that did not track.
C19_SemeiaOuAvanca ==
    (pc \in AposRamo /\ modo_iter = "rastreando") =>
        /\ iter.semeou <=> modo_anterior # "rastreando"
        /\ iter.avancou <=> ~iter.semeou
        /\ rastreador.semeado

\* C19 (amended): a tracking iteration seeds the tracker exactly when the
\* evaluation changed the mode into 'rastreando', advances it in every
\* case, after the seeding when there is one, and leaves a tracker that
\* was seeded since the last iteration that did not track.
C19_SemeiaEAvanca ==
    (pc \in AposRamo /\ modo_iter = "rastreando") =>
        /\ iter.semeou <=> modo_anterior # "rastreando"
        /\ iter.avancou
        /\ rastreador.semeado

\* C19's case: a tracking iteration that follows a tracking iteration
\* advances the tracker without seeding it.
C19_Witness ==
    /\ pc = "lento" /\ modo_iter = "rastreando" /\ modo_anterior = "rastreando"
    /\ ~iter.semeou /\ iter.avancou /\ rastreador.semeado
    /\ rastreador.alvos # {}

\* C20: an iteration resets the registry, before the merge, exactly when
\* the time from its start to the end of its mode branch is above
\* MAX_TEMPO_ENTRE_REGISTROS; a slow iteration still merges, publishes,
\* records and paces, and run goes on to the next iteration unless stop()
\* was called.
C20_IteracaoLentaNaoFatal ==
    /\ []((pc \in AposRamo \ {"lento"}) =>
             (iter.lenta <=> iter.decorrido > MAX_TEMPO_ENTRE_REGISTROS))
    /\ []((pc = "atualizar") =>
             pessoas_registradas =
                 IF iter.lenta THEN RegistroVazio ELSE iter.reg_antes)
    /\ []((pc = "teste" /\ iter.lenta) => IteracaoCompleta)
    /\ [][(pc = "teste" /\ iter.lenta /\ ~stopped /\ pc' # pc) => pc' = "le"]_vars

\* C20's case: the iteration after a slow one has begun, and the slow one
\* left the boxes of its own merge.
C20_Witness ==
    /\ pc = "le" /\ iter.lenta /\ pessoas_historico.ultimo = MaxCaixas
    /\ RegistroLen(pessoas_registradas) = MaxCaixas

\* C21: after every evaluation the stopped-entry time and the
\* last-detection time are not after the last-check time, the last-check
\* time is the instant the evaluation ended, no recorded time has moved
\* back, the stopped-entry time has changed only if the evaluation entered
\* 'parado' from another mode, and the last-detection time only if its
\* result is 'detectando'.
C21_TemposMonotonos ==
    aval.n >= 1 =>
        /\ tempo_em_que_parou <= tempo_ultima_checagem
        /\ tempo_ultima_deteccao <= tempo_ultima_checagem
        /\ tempo_ultima_checagem = aval.fimAval
        /\ checagem_atual <= tempo_ultima_checagem
        /\ ~aval.recuou
        /\ aval.parouMudou => (modo = "parado" /\ modo_anterior # "parado")
        /\ aval.deteccaoMudou => modo = "detectando"

\* C21's case: an evaluation entered 'parado' and recorded the entry, some
\* time after the last detection, which it left alone.
C21_Witness ==
    /\ aval.n >= 2 /\ modo = "parado" /\ modo_anterior = "detectando"
    /\ aval.parouMudou /\ ~aval.deteccaoMudou
    /\ tempo_ultima_deteccao < tempo_em_que_parou

\* C22: an evaluation enters 'rastreando' only from 'detectando', enters
\* 'parado' only from 'detectando', and with usar_rastreamento False never
\* yields 'rastreando'.
C22_EntradasDosModos ==
    aval.n >= 1 =>
        /\ (modo = "rastreando" /\ modo_anterior # "rastreando")
               => modo_anterior = "detectando"
        /\ (modo = "parado" /\ modo_anterior # "parado")
               => modo_anterior = "detectando"
        /\ ~usar_rastreamento => modo # "rastreando"

\* C22's case: with tracking enabled an evaluation after the first went
\* from 'detectando' to 'rastreando'.
C22_Witness ==
    /\ aval.n >= 2 /\ usar_rastreamento /\ aval.mov
    /\ modo = "rastreando" /\ modo_anterior = "detectando"

\* The positions of an iteration after its merge.
AposFusao == {"publica_frame", "publica_modo", "historico", "ritmo"}

\* C23: after the merge of a detecting or tracking iteration, slow or not,
\* the registry holds exactly the boxes the iteration produced; after the
\* merge of a stopped iteration that was slow, or that follows a slow one
\* in the same stopped run, the registry is empty.
C23_ReinicioSoDuraParado ==
    pc \in AposFusao =>
        /\ modo_iter \in {"detectando", "rastreando"}
               => pessoas_registradas.caixas = iter.produzidas
        /\ (modo_iter = "parado" /\ (iter.lenta \/ iter.parada_lenta))
               => pessoas_registradas = RegistroVazio

\* C23's case: a stopped iteration that was not slow itself, in a stopped
\* run that had a slow iteration, after an active iteration that left
\* boxes: the registry is still empty.
C23_Witness ==
    /\ pc = "publica_frame" /\ modo_iter = "parado"
    /\ ~iter.lenta /\ iter.parada_lenta
    /\ iter.cont_ativa = MaxCaixas
    /\ pessoas_registradas = RegistroVazio

====
